---- MODULE Spec2Model ----
(***************************************************************************)
(* A model of the crate range-split: the TakeRange implementations for     *)
(* Bytes and BytesMut (src/bytes.rs, src/take_range.rs, src/mem.rs) and    *)
(* the UTF-8 range validator (src/str.rs).                                 *)
(*                                                                         *)
(* Spec     explores take_range / remove_range on byte buffers.            *)
(* SpecStr  explores is_valid_range / assert_str_range! / range_fail.      *)
(***************************************************************************)
EXTENDS Integers, Sequences, FiniteSets, TLC

\* ------------------------------------------------------------------ bounds

\* Width of usize in bits in the model; all index arithmetic is done in it.
UsizeBits == 16
\* Indices 0..MaxIndex are explored, together with the two largest usize values.
MaxIndex == 13
\* Longest buffer built from Alphabet in Init (HelloWorld is added to them).
MaxLen == 2
\* Largest initial spare capacity (capacity - length) of a BytesMut.
MaxSpare == 1
\* Number of successive take_range / remove_range calls on one buffer.
MaxOps == 2
\* Longest text, in characters, built from Chars in Init.
MaxChars == 2

USIZE_MAX == 2^UsizeBits - 1

Idx == (0..MaxIndex) \cup {USIZE_MAX - 1, USIZE_MAX}

Min(a, b) == IF a < b THEN a ELSE b

\* ------------------------------------------------------------------ ranges

RangeFull == [shape |-> "RangeFull", at |-> 0]
RangeFrom(start) == [shape |-> "RangeFrom", at |-> start]
RangeTo(end) == [shape |-> "RangeTo", at |-> end]
RangeToInclusive(end) == [shape |-> "RangeToInclusive", at |-> end]

\* ------------------------------------------------- mem::convert_inclusive_range

\* usize::checked_add: None on overflow.
checked_add(a, b) ==
    IF a + b > USIZE_MAX THEN [some |-> FALSE, val |-> 0]
    ELSE [some |-> TRUE, val |-> a + b]

\* usize addition as the machine does it when unchecked: modulo 2^UsizeBits.
usize_add(a, b) == (a + b) % (USIZE_MAX + 1)

\* Faulty variant: wrapping_add in place of checked_add.
convert_inclusive_range_wrapping(range) ==
    [ok |-> TRUE, range |-> RangeTo(usize_add(range.at, 1))]

\* Faulty variant: the end bound is passed on without the increment.
convert_inclusive_range_noinc(range) ==
    IF range.at = USIZE_MAX THEN [ok |-> FALSE, range |-> RangeTo(0)]
    ELSE [ok |-> TRUE, range |-> RangeTo(range.at)]

\* ..range.end.checked_add(1).expect("integer overflow")
convert_inclusive_range(range) ==
    LET e == checked_add(range.at, 1)
    IN  IF e.some THEN [ok |-> TRUE, range |-> RangeTo(e.val)]
        ELSE [ok |-> FALSE, range |-> RangeTo(0)]

\* ------------------------------------------------------- buffer primitives
\* A buffer is [data, cap, inl]: its bytes, and for BytesMut its capacity
\* (cap >= Len(data)) and whether it is stored inline in the handle: an inline
\* buffer's capacity is INLINE_CAP whatever is split from it, a heap buffer's
\* capacity follows the splits. A Bytes has cap = Len(data) and inl = FALSE.
\* A call's result is [panic, self, out, calls]: panic = "" when it returns and
\* names the function that panicked otherwise, self is the buffer after the
\* call, out the bytes returned, calls the functions invoked with their
\* index argument, in order.

\* Bytes a handle stores inline: 4 * size_of::<usize>() - 1.
INLINE_CAP == 4 * (UsizeBits \div 8) - 1

Buf(data, cap, inl) == [data |-> data, cap |-> cap, inl |-> inl]
\* The buffer b with new bytes, and new capacity unless it is inline.
Resize(b, data, cap) == Buf(data, IF b.inl THEN b.cap ELSE cap, b.inl)
Prefix(data, n) == SubSeq(data, 1, n)
Suffix(data, n) == SubSeq(data, n + 1, Len(data))

Returns(self, out, name, arg) ==
    [panic |-> "", self |-> self, out |-> out, calls |-> <<(<<name, arg>>)>>]
Panics(self, name, arg) ==
    [panic |-> name, self |-> self, out |-> <<>>, calls |-> <<(<<name, arg>>)>>]

\* Bytes::split_off: panics if at > len; self keeps [0, at), returns [at, len).
Bytes_split_off(b, at) ==
    IF at > Len(b.data) THEN Panics(b, "split_off", at)
    ELSE Returns(Resize(b, Prefix(b.data, at), at), Suffix(b.data, at), "split_off", at)

\* BytesMut::split_off: panics if at > capacity; self keeps [0, at), returns
\* [at, capacity), of which only [at, len) holds bytes.
BytesMut_split_off(b, at) ==
    IF at > b.cap THEN Panics(b, "split_off", at)
    ELSE Returns(Resize(b, Prefix(b.data, Min(at, Len(b.data))), at),
                 IF at >= Len(b.data) THEN <<>> ELSE Suffix(b.data, at),
                 "split_off", at)

\* split_to (both types): panics if at > len; self keeps [at, len), returns [0, at).
split_to(b, at) ==
    IF at > Len(b.data) THEN Panics(b, "split_to", at)
    ELSE Returns(Resize(b, Suffix(b.data, at), b.cap - at), Prefix(b.data, at), "split_to", at)

\* BytesMut::take: split_to(len).
BytesMut_take(b) ==
    Returns(Resize(b, <<>>, b.cap - Len(b.data)), b.data, "take", 0)

\* truncate (both types): keeps the first len bytes; no effect if len >= self.len().
truncate(b, len) ==
    IF len < Len(b.data)
    THEN Returns(Resize(b, Prefix(b.data, len), b.cap), <<>>, "truncate", len)
    ELSE Returns(b, <<>>, "truncate", len)

\* advance (both types): panics if cnt > len; drops the first cnt bytes.
advance(b, cnt) ==
    IF cnt > Len(b.data) THEN Panics(b, "advance", cnt)
    ELSE Returns(Resize(b, Suffix(b.data, cnt), b.cap - cnt), <<>>, "advance", cnt)

\* clear (both types): truncate(0).
clear(b) == Returns(Resize(b, <<>>, b.cap), <<>>, "clear", 0)

\* ------------------------------------------------ impl TakeRange for Bytes, BytesMut
\* T is "Bytes" or "BytesMut"; self is the buffer; range one of the four shapes.

Called(name, arg, res) == [res EXCEPT !.calls = <<(<<name, arg>>)>> \o res.calls]

\* Faulty variant: the whole buffer is cloned instead of split off.
take_range_RangeFull_clone(T, self, range) == Returns(self, self.data, "clone", 0)

take_range_RangeFull(T, self, range) ==
    IF T = "Bytes" THEN Bytes_split_off(self, 0) ELSE BytesMut_take(self)

remove_range_RangeFull(T, self, range) == clear(self)

\* Faulty variant: the start is clamped to the length before splitting.
take_range_RangeFrom_clamped(T, self, range) ==
    IF T = "Bytes" THEN Bytes_split_off(self, Min(range.at, Len(self.data)))
    ELSE BytesMut_split_off(self, Min(range.at, Len(self.data)))

take_range_RangeFrom(T, self, range) ==
    IF T = "Bytes" THEN Bytes_split_off(self, range.at)
    ELSE BytesMut_split_off(self, range.at)

remove_range_RangeFrom(T, self, range) == truncate(self, range.at)

\* Faulty variant: split_off where split_to is meant.
take_range_RangeTo_split_off(T, self, range) ==
    IF T = "Bytes" THEN Bytes_split_off(self, range.at)
    ELSE BytesMut_split_off(self, range.at)

take_range_RangeTo(T, self, range) == split_to(self, range.at)

remove_range_RangeTo(T, self, range) == advance(self, range.at)

take_range_RangeToInclusive(T, self, range) ==
    LET c == convert_inclusive_range(range)
    IN  IF c.ok
        THEN Called("convert_inclusive_range", range.at,
                    take_range_RangeTo(T, self, c.range))
        ELSE Panics(self, "convert_inclusive_range", range.at)

remove_range_RangeToInclusive(T, self, range) ==
    LET c == convert_inclusive_range(range)
    IN  IF c.ok
        THEN Called("convert_inclusive_range", range.at,
                    remove_range_RangeTo(T, self, c.range))
        ELSE Panics(self, "convert_inclusive_range", range.at)

\* Dispatch on the range type, as the trait's generic parameter R does.
take_range(T, self, range) ==
    CASE range.shape = "RangeFull" -> take_range_RangeFull(T, self, range)
      [] range.shape = "RangeFrom" -> take_range_RangeFrom(T, self, range)
      [] range.shape = "RangeTo" -> take_range_RangeTo(T, self, range)
      [] range.shape = "RangeToInclusive" -> take_range_RangeToInclusive(T, self, range)

remove_range(T, self, range) ==
    CASE range.shape = "RangeFull" -> remove_range_RangeFull(T, self, range)
      [] range.shape = "RangeFrom" -> remove_range_RangeFrom(T, self, range)
      [] range.shape = "RangeTo" -> remove_range_RangeTo(T, self, range)
      [] range.shape = "RangeToInclusive" -> remove_range_RangeToInclusive(T, self, range)

\* The trait's default remove_range: take_range, dropping what it returns.
remove_range_default(T, self, range) ==
    [take_range(T, self, range) EXCEPT !.out = <<>>]

\* ------------------------------------------------------ UTF-8 range validator
\* A text is the sequence of its UTF-8 bytes. A bound is core::ops::Bound<usize>.

Unbounded == [kind |-> "Unbounded", index |-> 0]
Included(i) == [kind |-> "Included", index |-> i]
Excluded(i) == [kind |-> "Excluded", index |-> i]

\* str::is_char_boundary: 0 and len are boundaries, an index past len is not,
\* and inside the text the byte at index must not be a continuation byte
\* (10xxxxxx, i.e. 128..191).
is_char_boundary(s, index) ==
    IF index = 0 THEN TRUE
    ELSE IF index >= Len(s) THEN index = Len(s)
    ELSE s[index + 1] < 128 \/ s[index + 1] >= 192

validate_index(s, index) ==
    IF is_char_boundary(s, index) THEN "Ok"
    ELSE IF index > Len(s) THEN "OutOfBuffer"
    ELSE "NotCharBoundary"

\* Faulty variant: the boundary test comes before the bounds test.
validate_next_index_unguarded(s, index) ==
    IF is_char_boundary(s, usize_add(index, 1)) THEN "Ok"
    ELSE IF index >= Len(s) THEN "OutOfBuffer"
    ELSE "NotCharBoundary"

validate_next_index(s, index) ==
    IF index >= Len(s) THEN "OutOfBuffer"
    ELSE IF is_char_boundary(s, usize_add(index, 1)) THEN "Ok"
    ELSE "NotCharBoundary"

validate_start_bound(s, bound) ==
    CASE bound.kind = "Unbounded" -> "Ok"
      [] bound.kind = "Included" -> validate_index(s, bound.index)
      [] bound.kind = "Excluded" -> validate_next_index(s, bound.index)

\* Faulty variant: the end bound is read as a start bound.
validate_end_bound_same_as_start(s, bound) == validate_start_bound(s, bound)

validate_end_bound(s, bound) ==
    CASE bound.kind = "Unbounded" -> "Ok"
      [] bound.kind = "Excluded" -> validate_index(s, bound.index)
      [] bound.kind = "Included" -> validate_next_index(s, bound.index)

is_valid_range(s, range) ==
    /\ validate_start_bound(s, range.start) = "Ok"
    /\ validate_end_bound(s, range.end) = "Ok"

OutOfBounds == "out of bounds"
NotUtf8Boundary == "does not split on a UTF-8 boundary"
Unreachable == "there was no problem with the range"

\* Faulty variant: the two bounds are handed to each other's validator.
range_fail_internal_swapped(s, start_bound, end_bound) ==
    LET start_validity == validate_start_bound(s, end_bound)
        end_validity == validate_end_bound(s, start_bound)
    IN  IF start_validity = "OutOfBuffer" \/ end_validity = "OutOfBuffer"
        THEN OutOfBounds
        ELSE IF start_validity = "NotCharBoundary" \/ end_validity = "NotCharBoundary"
        THEN NotUtf8Boundary
        ELSE Unreachable

\* Faulty variant: the match arms in the other order.
range_fail_internal_boundary_first(s, start_bound, end_bound) ==
    LET start_validity == validate_start_bound(s, start_bound)
        end_validity == validate_end_bound(s, end_bound)
    IN  IF start_validity = "NotCharBoundary" \/ end_validity = "NotCharBoundary"
        THEN NotUtf8Boundary
        ELSE IF start_validity = "OutOfBuffer" \/ end_validity = "OutOfBuffer"
        THEN OutOfBounds
        ELSE Unreachable

\* The panic message of range_fail_internal (the match arms, in order).
range_fail_internal(s, start_bound, end_bound) ==
    LET start_validity == validate_start_bound(s, start_bound)
        end_validity == validate_end_bound(s, end_bound)
    IN  IF start_validity = "OutOfBuffer" \/ end_validity = "OutOfBuffer"
        THEN OutOfBounds
        ELSE IF start_validity = "NotCharBoundary" \/ end_validity = "NotCharBoundary"
        THEN NotUtf8Boundary
        ELSE Unreachable

range_fail(s, range) == range_fail_internal(s, range.start, range.end)

\* assert_str_range!(s, r): returns, or panics with range_fail's message.
assert_str_range(s0, r0) ==
    IF ~is_valid_range(s0, r0) THEN range_fail(s0, r0) ELSE "returned"

\* ------------------------------------------------------------------ inputs

\* "Hello, world"
HelloWorld == <<72, 101, 108, 108, 111, 44, 32, 119, 111, 114, 108, 100>>
\* "Hello"
Hello == <<72, 101, 108, 108, 111>>
\* "Привет": six two-byte characters
Privet == <<208, 159, 209, 128, 208, 184, 208, 178, 208, 181, 209, 130>>

Alphabet == {97, 98}
InitData == {HelloWorld} \cup UNION {[1..n -> Alphabet] : n \in 0..MaxLen}
Kinds == {"Bytes", "BytesMut"}
Ranges ==
    {RangeFull} \cup {RangeFrom(i) : i \in Idx} \cup {RangeTo(i) : i \in Idx}
        \cup {RangeToInclusive(i) : i \in Idx}

\* One character of each encoded width: 'H', U+041F, U+20AC, U+1F600.
Chars == {<<72>>, <<208, 159>>, <<226, 130, 172>>, <<240, 159, 152, 128>>}

RECURSIVE Flatten(_)
Flatten(cs) == IF cs = <<>> THEN <<>> ELSE Head(cs) \o Flatten(Tail(cs))

Texts ==
    {Hello, Privet} \cup {Flatten(cs) : cs \in UNION {[1..n -> Chars] : n \in 0..MaxChars}}
Bounds == {Unbounded} \cup {Included(i) : i \in Idx} \cup {Excluded(i) : i \in Idx}
StrRanges == [start : Bounds, end : Bounds]

\* ------------------------------------------------------------------- state

VARIABLES
    T,        \* the buffer's type: "Bytes" or "BytesMut"
    buf,      \* the buffer the caller holds
    pre,      \* the buffer as it was before the last call
    rng,      \* the range given to the last call
    op,       \* the last call: "none", "take_range" or "remove_range"
    out,      \* the bytes the last call returned
    panic,    \* "" if the last call returned, else the function that panicked
    calls,    \* the functions the last call invoked, in order
    steps,    \* calls made so far
    s,        \* the text given to the validator
    r,        \* the range given to the validator
    sop,      \* the validator's last call
    valid,    \* what is_valid_range last returned
    outcome   \* "returned", or the panic message of the validator's last call

bvars == <<T, buf, pre, rng, op, out, panic, calls, steps>>
svars == <<s, r, sop, valid, outcome>>
vars == <<T, buf, pre, rng, op, out, panic, calls, steps, s, r, sop, valid, outcome>>

\* A Bytes exposes no capacity: it is kept equal to the length.
Settle(kind, b) == IF kind = "Bytes" THEN Buf(b.data, Len(b.data), FALSE) ELSE b

BytesIdle ==
    /\ T = "Bytes" /\ buf = Buf(<<>>, 0, FALSE) /\ pre = buf /\ rng = RangeFull
    /\ op = "none" /\ out = <<>> /\ panic = "" /\ calls = <<>> /\ steps = 0

StrIdle ==
    /\ s = <<>> /\ r = [start |-> Unbounded, end |-> Unbounded]
    /\ sop = "none" /\ valid = FALSE /\ outcome = "none"

Init ==
    /\ T \in Kinds
    /\ \E d \in InitData :
          \/ \E spare \in 0..MaxSpare : buf = Settle(T, Buf(d, Len(d) + spare, FALSE))
          \/ /\ T = "BytesMut" /\ Len(d) <= INLINE_CAP
             /\ buf = Buf(d, INLINE_CAP, TRUE)
    /\ pre = buf /\ rng = RangeFull /\ op = "none" /\ out = <<>>
    /\ panic = "" /\ calls = <<>> /\ steps = 0
    /\ StrIdle

\* A call of name on buf with range; res is what the implementation does.
Call(name, range, res) ==
    /\ steps < MaxOps
    /\ steps' = steps + 1
    /\ op' = name /\ rng' = range /\ pre' = buf
    /\ buf' = Settle(T, res.self)
    /\ out' = res.out /\ panic' = res.panic /\ calls' = res.calls
    /\ UNCHANGED <<T, s, r, sop, valid, outcome>>

TakeRangeFull == Call("take_range", RangeFull, take_range(T, buf, RangeFull))
TakeRangeFrom ==
    \E i \in Idx : Call("take_range", RangeFrom(i), take_range(T, buf, RangeFrom(i)))
TakeRangeTo ==
    \E i \in Idx : Call("take_range", RangeTo(i), take_range(T, buf, RangeTo(i)))
TakeRangeToInclusive ==
    \E i \in Idx :
        Call("take_range", RangeToInclusive(i), take_range(T, buf, RangeToInclusive(i)))
RemoveRangeFull == Call("remove_range", RangeFull, remove_range(T, buf, RangeFull))
RemoveRangeFrom ==
    \E i \in Idx : Call("remove_range", RangeFrom(i), remove_range(T, buf, RangeFrom(i)))
RemoveRangeTo ==
    \E i \in Idx : Call("remove_range", RangeTo(i), remove_range(T, buf, RangeTo(i)))
RemoveRangeToInclusive ==
    \E i \in Idx :
        Call("remove_range", RangeToInclusive(i), remove_range(T, buf, RangeToInclusive(i)))

Next ==
    \/ TakeRangeFull \/ TakeRangeFrom \/ TakeRangeTo \/ TakeRangeToInclusive
    \/ RemoveRangeFull \/ RemoveRangeFrom \/ RemoveRangeTo \/ RemoveRangeToInclusive

Spec == Init /\ [][Next]_vars

\* ---- the validator's specification

InitStr ==
    /\ BytesIdle
    /\ s \in Texts /\ r \in StrRanges
    /\ sop = "none" /\ valid = FALSE /\ outcome = "none"

IsValidRange ==
    /\ sop' = "is_valid_range"
    /\ valid' = is_valid_range(s, r)
    /\ outcome' = "returned"
    /\ UNCHANGED <<s, r, bvars>>

AssertStrRange ==
    /\ sop' = "assert_str_range"
    /\ valid' = is_valid_range(s, r)
    /\ outcome' = assert_str_range(s, r)
    /\ UNCHANGED <<s, r, bvars>>

RangeFail ==
    /\ sop' = "range_fail"
    /\ outcome' = range_fail(s, r)
    /\ UNCHANGED <<s, r, valid, bvars>>

NextStr == IsValidRange \/ AssertStrRange \/ RangeFail

SpecStr == InitStr /\ [][NextStr]_vars

\* =================================================================== claims
\* ---- what the specification says, stated without the implementation

\* The bytes [lo, hi) of data, zero-based, reindexed from zero.
Region(data, lo, hi) == [k \in 1..(hi - lo) |-> data[lo + k]]

\* The range's bound lies within the buffer.
InBuffer(b, range) ==
    CASE range.shape = "RangeFull" -> TRUE
      [] range.shape = "RangeFrom" -> range.at <= Len(b.data)
      [] range.shape = "RangeTo" -> range.at <= Len(b.data)
      [] range.shape = "RangeToInclusive" -> range.at < Len(b.data)

\* ", world"
CommaWorld == <<44, 32, 119, 111, 114, 108, 100>>

\* C1: for both buffer kinds and every range shape whose bound lies within the
\* buffer, take_range returns and conserves length:
\* length(piece) + length(buffer after) = length(buffer before).
C1_LengthConserved ==
    (op = "take_range" /\ InBuffer(pre, rng)) =>
        /\ panic = ""
        /\ Len(out) + Len(buf.data) = Len(pre.data)

C1_Witness ==
    /\ op = "take_range" /\ rng.shape = "RangeToInclusive" /\ T = "BytesMut"
    /\ InBuffer(pre, rng) /\ Len(out) > 0 /\ Len(buf.data) > 0

\* C2: take_range returns exactly the designated region and leaves the rest
\* reindexed from zero: full returns everything and leaves the buffer empty
\* (also on an empty buffer), from(start) returns [start, len) and leaves
\* [0, start), to(end) returns [0, end) and leaves [end, len). On "Hello, world"
\* take(..5) returns "Hello" and leaves ", world"; remove(2..) then leaves ", ".
C2_ExactRegions ==
    LET n == Len(pre.data)
    IN  /\ (op = "take_range" /\ InBuffer(pre, rng)) =>
            /\ panic = ""
            /\ rng.shape = "RangeFull" => out = pre.data /\ buf.data = <<>>
            /\ rng.shape = "RangeFrom" =>
                    /\ out = Region(pre.data, rng.at, n)
                    /\ buf.data = Region(pre.data, 0, rng.at)
            /\ rng.shape = "RangeTo" =>
                    /\ out = Region(pre.data, 0, rng.at)
                    /\ buf.data = Region(pre.data, rng.at, n)
        /\ (op = "take_range" /\ pre.data = HelloWorld /\ rng = RangeTo(5)) =>
            out = Hello /\ buf.data = CommaWorld
        /\ (op = "remove_range" /\ pre.data = CommaWorld /\ rng = RangeFrom(2)) =>
            panic = "" /\ buf.data = <<44, 32>>

C2_Witness ==
    /\ steps = 2 /\ op = "remove_range" /\ pre.data = CommaWorld
    /\ rng = RangeFrom(2) /\ buf.data = <<44, 32>>

\* C3: remove_range(buffer, r) is observationally take_range(buffer, r) with the
\* result dropped: the same content is left and it fails on exactly the same
\* inputs.
C3_RemoveSameAsTake ==
    op = "remove_range" =>
        LET t == remove_range_default(T, pre, rng)
        IN  /\ (panic = "") = (t.panic = "")
            /\ buf.data = t.self.data

\* C4: for end < usize::MAX, take_range(b, ..=end) gives the same piece, the
\* same remaining buffer and the same success or failure as
\* take_range(b, ..(end + 1)), and remove_range likewise.
C4_InclusiveSameAsExclusive ==
    (rng.shape = "RangeToInclusive" /\ rng.at < USIZE_MAX) =>
        LET e == IF op = "take_range" THEN take_range(T, pre, RangeTo(rng.at + 1))
                 ELSE remove_range(T, pre, RangeTo(rng.at + 1))
        IN  /\ out = e.out
            /\ buf = Settle(T, e.self)
            /\ panic = e.panic

C4_Witness ==
    /\ rng.shape = "RangeToInclusive" /\ rng.at < USIZE_MAX /\ op = "take_range"
    /\ panic = "" /\ Len(out) = rng.at + 1 /\ Len(buf.data) > 0

\* C5: convert_inclusive_range(..=e) gives ..(e + 1) for e < usize::MAX and
\* panics for e = usize::MAX, never wrapping to ..0; take and remove with
\* ..=usize::MAX fail in the conversion, before any buffer primitive is
\* invoked, with the buffer unmodified.
C5_OverflowGuard ==
    rng.shape = "RangeToInclusive" =>
        IF rng.at = USIZE_MAX
        THEN /\ panic = "convert_inclusive_range"
             /\ calls = <<(<<"convert_inclusive_range", rng.at>>)>>
             /\ buf = pre
        ELSE /\ Len(calls) = 2
             /\ calls[1] = <<"convert_inclusive_range", rng.at>>
             /\ calls[2][1] = (IF op = "take_range" THEN "split_to" ELSE "advance")
             /\ calls[2][2] = rng.at + 1

C5_Witness ==
    /\ rng = RangeToInclusive(USIZE_MAX) /\ panic = "convert_inclusive_range"
    /\ Len(pre.data) > 0 /\ buf = pre

\* C10 as claimed: take_range(buf, start..) returns for every start <= len and
\* fails for every start > len, take_range(buf, ..end) returns for every
\* end <= len and fails for every end > len, for both buffer kinds, and a
\* failed take leaves the buffer unchanged.
C10_FailsPastLength ==
    op = "take_range" =>
        /\ rng.shape \in {"RangeFrom", "RangeTo"} =>
                (panic = "") = (rng.at <= Len(pre.data))
        /\ panic # "" => buf = pre

\* C10 as amended: for Bytes take_range(buf, start..) returns iff
\* start <= len; for BytesMut it returns iff start <= capacity, and for
\* len <= start <= capacity it returns an empty piece and leaves the content
\* whole; take_range(buf, ..end) returns iff end <= len for both kinds, and
\* end = len returns the whole content and leaves the buffer empty; a failed
\* take leaves the buffer unchanged.
C10_FailsPastLengthOrCapacity ==
    LET n == Len(pre.data)
    IN  op = "take_range" =>
            /\ (rng.shape = "RangeFrom" /\ T = "Bytes") => (panic = "") = (rng.at <= n)
            /\ (rng.shape = "RangeFrom" /\ T = "BytesMut") =>
                    (panic = "") = (rng.at <= pre.cap)
            /\ (rng.shape = "RangeFrom" /\ panic = "" /\ rng.at >= n) =>
                    out = <<>> /\ buf.data = pre.data
            /\ rng.shape = "RangeTo" => (panic = "") = (rng.at <= n)
            /\ (rng.shape = "RangeTo" /\ rng.at = n) =>
                    out = pre.data /\ buf.data = <<>>
            /\ panic # "" => buf = pre /\ out = <<>>

C10_Witness ==
    /\ op = "take_range" /\ T = "BytesMut" /\ rng.shape = "RangeFrom"
    /\ Len(pre.data) < rng.at /\ rng.at <= pre.cap
    /\ panic = "" /\ out = <<>> /\ buf.data = pre.data /\ Len(pre.data) > 0

\* ---- the validator, stated without the implementation

\* Bytes in the encoding of the code point that starts with byte b.
CharWidth(b) == IF b < 128 THEN 1 ELSE IF b < 224 THEN 2 ELSE IF b < 240 THEN 3 ELSE 4

\* The code-point boundaries of text from pos on, found by decoding it.
RECURSIVE CodePointBoundaries(_, _)
CodePointBoundaries(text, pos) ==
    IF pos >= Len(text) THEN {Len(text)}
    ELSE {pos} \cup CodePointBoundaries(text, pos + CharWidth(text[pos + 1]))

\* Where a bound splits the text: i for an inclusive start or exclusive end at
\* i, i + 1 for an exclusive start or inclusive end at i (no wrap-around).
StartSplit(bound) == IF bound.kind = "Excluded" THEN bound.index + 1 ELSE bound.index
EndSplit(bound) == IF bound.kind = "Included" THEN bound.index + 1 ELSE bound.index

SplitKind(text, bound, point) ==
    IF bound.kind = "Unbounded" THEN "valid"
    ELSE IF point > Len(text) THEN "out-of-buffer"
    ELSE IF point \in CodePointBoundaries(text, 0) THEN "valid"
    ELSE "not-on-boundary"

StartKind == SplitKind(s, r.start, StartSplit(r.start))
EndKind == SplitKind(s, r.end, EndSplit(r.end))

To(i) == [start |-> Unbounded, end |-> Excluded(i)]
ToIncl(i) == [start |-> Unbounded, end |-> Included(i)]
From(i) == [start |-> Included(i), end |-> Unbounded]

\* C6: is_valid_range(text, range) is true iff each present bound, taken alone,
\* has its split point within [0, len] and on a code-point boundary (nothing
\* else, such as start <= end, is required). "Привет": ..1 invalid, ..0 valid;
\* "Hello": ..0, 5.. and ..=2 valid; "": 0..0 valid.
C6_IsValidRange ==
    sop = "is_valid_range" =>
        /\ valid = (StartKind = "valid" /\ EndKind = "valid")
        /\ (s = Privet /\ r = To(1)) => ~valid
        /\ (s = Privet /\ r = To(0)) => valid
        /\ (s = Hello /\ r \in {To(0), From(5), ToIncl(2)}) => valid
        /\ (s = <<>> /\ r = [start |-> Included(0), end |-> Excluded(0)]) => valid

C6_Witness ==
    /\ sop = "is_valid_range" /\ s = Privet /\ r = To(1) /\ ~valid

\* C7: assert_str_range!(s, r) returns iff is_valid_range(s, r) is true, and
\* otherwise panics with one of the two descriptive messages; the
\* internal-consistency branch of range_fail is never reached through it.
C7_AssertStrRange ==
    sop = "assert_str_range" =>
        /\ (outcome = "returned") = valid
        /\ valid = (StartKind = "valid" /\ EndKind = "valid")
        /\ ~valid => outcome \in {OutOfBounds, NotUtf8Boundary}

C7_Witness ==
    /\ sop = "assert_str_range" /\ ~valid /\ outcome = NotUtf8Boundary
    /\ StartKind = "not-on-boundary" /\ EndKind = "valid" /\ r.end.kind = "Included"

\* C8: the reported failure is "out of bounds" whenever at least one bound's
\* split point exceeds the length (even if the other is not on a boundary) and
\* "does not split on a UTF-8 boundary" only when none does and at least one
\* is inside a multi-byte sequence; a text of length 5 with ..6 is out of bounds.
C8_FailureKind ==
    (sop \in {"assert_str_range", "range_fail"} /\ outcome # "returned") =>
        LET oob == StartKind = "out-of-buffer" \/ EndKind = "out-of-buffer"
            nob == StartKind = "not-on-boundary" \/ EndKind = "not-on-boundary"
        IN  /\ (outcome = OutOfBounds) = oob
            /\ (outcome = NotUtf8Boundary) = (~oob /\ nob)
            /\ (Len(s) = 5 /\ r = To(6)) => outcome = OutOfBounds

C8_Witness ==
    /\ sop = "assert_str_range" /\ outcome = OutOfBounds
    /\ StartKind = "not-on-boundary" /\ EndKind = "out-of-buffer"

\* C9: an inclusive end (or exclusive start) at any i >= len, up to and
\* including usize::MAX, is out of buffer: no wrap to position 0, so
\* is_valid_range(text, ..=MAX) is false; and for i < MAX an inclusive end at i
\* is judged as an exclusive end at i + 1, with the same failure kind.
C9_NextIndex ==
    LET i == r.end.index
        excl == [start |-> r.start, end |-> Excluded(i + 1)]
    IN  /\ (r.end.kind = "Included" /\ i >= Len(s)) =>
            /\ sop = "is_valid_range" => ~valid
            /\ sop \in {"assert_str_range", "range_fail"} => outcome = OutOfBounds
        /\ (r.start.kind = "Excluded" /\ r.start.index >= Len(s)) =>
            /\ sop = "is_valid_range" => ~valid
            /\ sop \in {"assert_str_range", "range_fail"} => outcome = OutOfBounds
        /\ (r.end.kind = "Included" /\ i < USIZE_MAX) =>
            /\ sop = "is_valid_range" => valid = is_valid_range(s, excl)
            /\ sop = "assert_str_range" => outcome = assert_str_range(s, excl)
            /\ sop = "range_fail" => outcome = range_fail(s, excl)

C9_Witness ==
    /\ sop = "is_valid_range" /\ r = ToIncl(USIZE_MAX) /\ ~valid /\ Len(s) > 0

====
